---- MODULE Spec2Model ----
(***************************************************************************)
(* A model of what_theme (src/lib.rs).                                     *)
(*                                                                         *)
(*   Spec      VsCodeSettings::new_from: the extension cache is parsed,    *)
(*             collate_themes spawns one scoped thread per record, every   *)
(*             thread sends its LabeledThemes into an mpsc channel, the    *)
(*             coordinator joins, drops its sender and drains; then        *)
(*             find_theme is called on the collected list.                 *)
(*   FairSpec  Spec with weak fairness on the coordinator and every task.  *)
(***************************************************************************)
EXTENDS Integers, Sequences, FiniteSets, TLC

\* Most records in one extension cache.
MaxRecords == 2

\* A string field that the JSON text does not carry.
Absent == "<absent>"

(***************************************************************************)
(* vscode_data: the serde shapes                                           *)
(***************************************************************************)

\* The extension ids and install paths that occur in the caches considered.
Ids == {"a.b", "c.d"}
Paths == {"/ext/theme"}

\* One element of extensions.json as written: identifier.id and
\* location.path, each possibly missing from the text.
Entries ==
    [id : Ids \cup {Absent}, path : Paths] \cup [id : {"a.b"}, path : {Absent}]

RECURSIVE SeqsUpTo(_, _)
SeqsUpTo(S, n) ==
    IF n = 0 THEN {<<>>}
    ELSE LET shorter == SeqsUpTo(S, n - 1)
         IN  shorter \cup {Append(s, x) : s \in {t \in shorter : Len(t) = n - 1}, x \in S}

\* The texts handed to new_from: something that is no JSON array of records,
\* or an array of at most MaxRecords elements.
Sources ==
    {[json |-> FALSE, entries |-> <<>>]}
        \cup {[json |-> TRUE, entries |-> es] : es \in SeqsUpTo(Entries, MaxRecords)}

\* vscode_data::Identifier is #[serde(default)]: a missing id is "".
Identifier(e) == [id |-> IF e.id = Absent THEN "" ELSE e.id]

\* vscode_data::Location: path is required.
LocationOk(e) == e.path # Absent

\* vscode_data::Result, one parsed record.
Result(e) == [identifier |-> Identifier(e), location |-> [path |-> e.path]]

\* A parse that skips the elements it cannot read instead of failing.
FromStrRecordsSkipping(src) ==
    LET good == SelectSeq(src.entries, LocationOk)
    IN  [ok |-> TRUE, val |-> [i \in 1..Len(good) |-> Result(good[i])]]

\* serde_json::from_str::<Vec<vscode_data::Result>>(data)
FromStrRecords(src) ==
    IF src.json /\ \A i \in 1..Len(src.entries) : LocationOk(src.entries[i])
    THEN [ok |-> TRUE, val |-> [i \in 1..Len(src.entries) |-> Result(src.entries[i])]]
    ELSE [ok |-> FALSE, val |-> <<>>]

\* The contents a package.json may have: text that is no JSON object, or an
\* object whose contributes.themes holds these labels (Absent: a theme
\* object without a label).
Files ==
    {[json |-> FALSE, themes |-> <<>>]}
        \cup {[json |-> TRUE, themes |-> t] :
                t \in {<<>>, <<"Foo">>, <<"Bar">>, <<"Foo", "">>, <<Absent>>}}

\* serde_json::from_str::<vscode_data::Manifest>(&data): Manifest and
\* Contributes.themes default to empty, Theme.label is required.
FromStrManifest(content) ==
    IF content.json /\ \A k \in 1..Len(content.themes) : content.themes[k] # Absent
    THEN [ok |-> TRUE, themes |-> content.themes]
    ELSE [ok |-> FALSE, themes |-> <<>>]

\* The two String fields filled the wrong way round.
LabeledThemeSwapped(label, id) == [label |-> id, id |-> label]

\* LabeledTheme { label, id }
LabeledTheme(label, id) == [label |-> label, id |-> id]

(***************************************************************************)
(* Text: a str is the sequence of its characters                           *)
(***************************************************************************)

\* Most lines in one settings document.
MaxLines == 3

ColorThemeKey ==
    <<"w", "o", "r", "k", "b", "e", "n", "c", "h", ".", "c", "o", "l", "o", "r", "T", "h", "e", "m", "e">>
EditorFontKey ==
    <<"e", "d", "i", "t", "o", "r", ".", "f", "o", "n", "t", "F", "a", "m", "i", "l", "y">>
TerminalFontKey ==
    <<"t", "e", "r", "m", "i", "n", "a", "l", ".", "i", "n", "t", "e", "g", "r", "a", "t", "e", "d", ".", "f", "o", "n", "t", "F", "a", "m", "i", "l", "y">>
\* A key that is no settings key: editor.fontFamily with X for its dot.
EditorXKey ==
    <<"e", "d", "i", "t", "o", "r", "X", "f", "o", "n", "t", "F", "a", "m", "i", "l", "y">>

Quoted(s) == <<"\"">> \o s \o <<"\"">>

\* The line `"key": "value"`.
Binding(key, value) == Quoted(key) \o <<":", " ">> \o Quoted(value)

\* The lines the settings documents considered are made of.
Lines ==
    { Binding(ColorThemeKey, <<"A">>),
      <<" ", " ">> \o Binding(ColorThemeKey, <<"B">>) \o <<",", " ">>,
      Binding(ColorThemeKey, <<"A", "\\", "\"", "B">>) \o <<",">>,
      Quoted(ColorThemeKey) \o <<":">>,
      Binding(EditorFontKey, <<"A">>) \o <<",">>,
      Binding(TerminalFontKey, <<"B">>),
      Binding(EditorXKey, <<"A">>),
      <<>> }

RECURSIVE JoinLines(_)
JoinLines(ls) ==
    IF ls = <<>> THEN <<>>
    ELSE IF Len(ls) = 1 THEN ls[1]
    ELSE ls[1] \o <<"\n">> \o JoinLines(Tail(ls))

\* The settings documents considered: at most MaxLines lines.
Documents == {JoinLines(ls) : ls \in SeqsUpTo(Lines, MaxLines)}

(***************************************************************************)
(* make_json_regex and extract                                             *)
(***************************************************************************)

\* One item of a compiled pattern: what it accepts and how often.
Atom(kind, ch, q) == [kind |-> kind, ch |-> ch, q |-> q]

\* The key interpolated as it is, its dots left bare.
EscapeDotsOmitted(key) == key

\* key.replace('.', r#"\."#)
RECURSIVE EscapeDots(_)
EscapeDots(key) ==
    IF key = <<>> THEN <<>>
    ELSE (IF Head(key) = "." THEN <<"\\", ".">> ELSE <<Head(key)>>)
            \o EscapeDots(Tail(key))

\* Regex::new on the interpolated key: `\c` is the character c, a bare `.`
\* is any character but a line feed, any other character is itself.
RECURSIVE CompileKey(_)
CompileKey(s) ==
    IF s = <<>> THEN <<>>
    ELSE IF s[1] = "\\" /\ Len(s) >= 2
         THEN <<Atom("lit", s[2], "1")>> \o CompileKey(SubSeq(s, 3, Len(s)))
    ELSE IF s[1] = "."
         THEN <<Atom("any", "", "1")>> \o CompileKey(Tail(s))
    ELSE <<Atom("lit", s[1], "1")>> \o CompileKey(Tail(s))

\* (?m)^\s*"
PatternHead ==
    <<Atom("bol", "", "-"), Atom("ws", "", "*"), Atom("lit", "\"", "1")>>

\* The pattern without its end-of-line anchor: "\s*:\s*"(?P<name>.*?)",?
PatternTailUnanchored ==
    <<Atom("lit", "\"", "1"), Atom("ws", "", "*"), Atom("lit", ":", "1"),
      Atom("ws", "", "*"), Atom("lit", "\"", "1"),
      Atom("open", "", "-"), Atom("any", "", "*?"), Atom("close", "", "-"),
      Atom("lit", "\"", "1"), Atom("lit", ",", "?")>>

\* "\s*:\s*"(?P<name>.*?)",?\s*?$
PatternTail ==
    <<Atom("lit", "\"", "1"), Atom("ws", "", "*"), Atom("lit", ":", "1"),
      Atom("ws", "", "*"), Atom("lit", "\"", "1"),
      Atom("open", "", "-"), Atom("any", "", "*?"), Atom("close", "", "-"),
      Atom("lit", "\"", "1"), Atom("lit", ",", "?"), Atom("ws", "", "*?"),
      Atom("eol", "", "-")>>

make_json_regex(key) == PatternHead \o CompileKey(EscapeDots(key)) \o PatternTail

WORKBENCH_COLOR_THEME == make_json_regex(ColorThemeKey)
WORKBENCH_EDITOR_FONT == make_json_regex(EditorFontKey)
WORKBENCH_TERMINAL_FONT == make_json_regex(TerminalFontKey)

\* \s is [\t\n\v\f\r ]; of these the documents hold the space and the line feed.
Whitespace == {" ", "\t", "\n", "\r"}

Accepts(a, c) ==
    CASE a.kind = "lit" -> c = a.ch
      [] a.kind = "any" -> c # "\n"
      [] a.kind = "ws" -> c \in Whitespace
      [] OTHER -> FALSE

NoMatch == [ok |-> FALSE, s |-> 0, e |-> 0]

\* How many items from item i on are to be matched exactly once each.
RunLen(re, i) ==
    LET stops == {j \in i..Len(re) : re[j].q # "1"}
    IN  IF stops = {} THEN Len(re) + 1 - i
        ELSE (CHOOSE j \in stops : \A k \in stops : j <= k) - i

\* The backtracking match of re from item i on at offset p of text, the
\* group `name` so far spanning s..e: the first match in the order of
\* preference (a greedy item takes before it skips, a lazy one skips first).
\* A run of once-only items is matched in one step.
RECURSIVE Match(_, _, _, _, _, _)
Match(re, i, text, p, s, e) ==
    IF i > Len(re) THEN [ok |-> TRUE, s |-> s, e |-> e]
    ELSE LET a == re[i]
             n == RunLen(re, i)
             hit == p < Len(text) /\ Accepts(a, text[p + 1])
             skip == Match(re, i + 1, text, p, s, e)
             take == Match(re, i + 1, text, p + 1, s, e)
             again == Match(re, i, text, p + 1, s, e)
         IN  CASE a.kind = "bol" ->
                    IF p = 0 \/ text[p] = "\n" THEN skip ELSE NoMatch
               [] a.kind = "eol" ->
                    IF p = Len(text) \/ text[p + 1] = "\n" THEN skip ELSE NoMatch
               [] a.kind = "open" -> Match(re, i + 1, text, p, p, e)
               [] a.kind = "close" -> Match(re, i + 1, text, p, s, p)
               [] a.q = "1" ->
                    IF /\ p + n <= Len(text)
                       /\ \A j \in 0..(n - 1) : Accepts(re[i + j], text[p + j + 1])
                    THEN Match(re, i + n, text, p + n, s, e)
                    ELSE NoMatch
               [] a.q = "?" -> IF hit /\ take.ok THEN take ELSE skip
               [] a.q = "*" -> IF hit /\ again.ok THEN again ELSE skip
               [] a.q = "*?" -> IF skip.ok THEN skip
                                ELSE IF hit THEN again ELSE NoMatch

\* re.captures(data): the match at the leftmost offset that has one.
Captures(re, text) ==
    LET starts == {p \in 0..Len(text) : Match(re, 1, text, p, 0, 0).ok}
    IN  IF starts = {} THEN NoMatch
        ELSE Match(re, 1, text, CHOOSE p \in starts : \A q \in starts : p <= q, 0, 0)

\* extract: cap["name"].to_string() of the match, None without one.
extract(re, text) ==
    LET cap == Captures(re, text)
    IN  IF cap.ok THEN [some |-> TRUE, val |-> SubSeq(text, cap.s + 1, cap.e)]
        ELSE [some |-> FALSE, val |-> <<>>]

\* get_current_theme_from
get_current_theme_from(text) ==
    LET theme == extract(WORKBENCH_COLOR_THEME, text)
    IN  IF theme.some THEN [ok |-> TRUE, val |-> theme.val, err |-> "none"]
        ELSE [ok |-> FALSE, val |-> <<>>, err |-> "CannotFindCurrentTheme"]

\* The two lookups in the other order: the terminal font first.
get_current_fonts_from_terminal_first(text) ==
    LET editor == extract(WORKBENCH_EDITOR_FONT, text)
        terminal == extract(WORKBENCH_TERMINAL_FONT, text)
    IN  IF ~terminal.some
        THEN [ok |-> FALSE, val |-> <<>>, err |-> "CannotFindTerminalFont"]
        ELSE IF ~editor.some
        THEN [ok |-> FALSE, val |-> <<>>, err |-> "CannotFindEditorFont"]
        ELSE [ok |-> TRUE, err |-> "none",
              val |-> [editor |-> editor.val, terminal |-> terminal.val]]

\* get_current_fonts_from: each `?` returns the error at once.
get_current_fonts_from(text) ==
    LET editor == extract(WORKBENCH_EDITOR_FONT, text)
        terminal == extract(WORKBENCH_TERMINAL_FONT, text)
    IN  IF ~editor.some
        THEN [ok |-> FALSE, val |-> <<>>, err |-> "CannotFindEditorFont"]
        ELSE IF ~terminal.some
        THEN [ok |-> FALSE, val |-> <<>>, err |-> "CannotFindTerminalFont"]
        ELSE [ok |-> TRUE, err |-> "none",
              val |-> [editor |-> editor.val, terminal |-> terminal.val]]

(***************************************************************************)
(* State                                                                   *)
(***************************************************************************)
VARIABLES
    source,     \* data: the text given to new_from
    pc,         \* where the caller of new_from is
    records,    \* list: the Vec<vscode_data::Result> given to collate_themes
    spawned,    \* how many records the for loop has spawned a thread for
    tpc,        \* per task: where the thread's closure is
    outcome,    \* per task: how reading its manifest ended
    themes,     \* per task: manifest.contributes.themes
    sent,       \* per task: how many themes its for loop has sent
    senders,    \* live Sender handles: tx and its clones
    rx,         \* whether the Receiver is alive
    chan,       \* the channel's queue
    list,       \* the Vec<LabeledTheme> being collected, then Self.list
    err,        \* the Error new_from returned
    found,      \* the last find_theme call and its result
    data,       \* the settings document given to the *_from functions
    call        \* the last call on the settings document and its result

vars == <<source, pc, records, spawned, tpc, outcome, themes, sent,
          senders, rx, chan, list, err, found, data, call>>

scanVars == <<source, pc, records, spawned, tpc, outcome, themes, sent,
              senders, rx, chan, list, err>>

textVars == <<data, call>>

Tasks == 1..Len(records)

NotCalled == [called |-> FALSE]

NoCall == [op |-> "none"]

\* Nothing has run yet.
Fresh ==
    /\ pc = "new_from"
    /\ records = <<>>
    /\ spawned = 0
    /\ tpc = <<>>
    /\ outcome = <<>>
    /\ themes = <<>>
    /\ sent = <<>>
    /\ senders = 0
    /\ rx = FALSE
    /\ chan = <<>>
    /\ list = <<>>
    /\ err = "none"
    /\ found = NotCalled
    /\ call = NoCall

Init ==
    /\ source \in Sources
    /\ data = <<>>
    /\ Fresh

(***************************************************************************)
(* new_from and the coordinator side of collate_themes                     *)
(***************************************************************************)

\* new_from, `serde_json::from_str(data)?` failing: Error::Json.
NewFromErr ==
    /\ pc = "new_from"
    /\ ~FromStrRecords(source).ok
    /\ pc' = "error"
    /\ err' = "Json"
    /\ UNCHANGED <<source, records, spawned, tpc, outcome, themes, sent,
                   senders, rx, chan, list, found, data, call>>

\* collate_themes entered with the channel's Receiver dropped at once.
NewFromOkReceiverDropped ==
    /\ pc = "new_from"
    /\ FromStrRecords(source).ok
    /\ records' = FromStrRecords(source).val
    /\ tpc' = [i \in 1..Len(records') |-> "unspawned"]
    /\ outcome' = [i \in 1..Len(records') |-> "pending"]
    /\ themes' = [i \in 1..Len(records') |-> <<>>]
    /\ sent' = [i \in 1..Len(records') |-> 0]
    /\ senders' = 1
    /\ rx' = FALSE
    /\ pc' = "scope"
    /\ UNCHANGED <<source, spawned, chan, list, err, found, data, call>>

\* new_from, the parse succeeding: collate_themes is entered and the
\* channel made.
NewFromOk ==
    /\ pc = "new_from"
    /\ FromStrRecords(source).ok
    /\ records' = FromStrRecords(source).val
    /\ tpc' = [i \in 1..Len(records') |-> "unspawned"]
    /\ outcome' = [i \in 1..Len(records') |-> "pending"]
    /\ themes' = [i \in 1..Len(records') |-> <<>>]
    /\ sent' = [i \in 1..Len(records') |-> 0]
    /\ senders' = 1
    /\ rx' = TRUE
    /\ pc' = "scope"
    /\ UNCHANGED <<source, spawned, chan, list, err, found, data, call>>

NewFrom == NewFromErr \/ NewFromOk

\* One turn of `for result in list`: tx.clone() in the spawning thread, then
\* scope.spawn.
Spawn ==
    /\ pc = "scope"
    /\ spawned < Len(records)
    /\ spawned' = spawned + 1
    /\ senders' = senders + 1
    /\ tpc' = [tpc EXCEPT ![spawned + 1] = "canonicalize"]
    /\ UNCHANGED <<source, pc, records, outcome, themes, sent, rx, chan,
                   list, err, found, data, call>>

\* A scope that does not wait for its threads (threads spawned detached).
JoinWithoutWaiting ==
    /\ pc = "scope"
    /\ spawned = Len(records)
    /\ pc' = "drop_tx"
    /\ UNCHANGED <<source, records, spawned, tpc, outcome, themes, sent,
                   senders, rx, chan, list, err, found, data, call>>

\* The end of std::thread::scope: it returns once every spawned thread has
\* finished.
Join ==
    /\ pc = "scope"
    /\ spawned = Len(records)
    /\ \A i \in Tasks : tpc[i] = "done"
    /\ pc' = "drop_tx"
    /\ UNCHANGED <<source, records, spawned, tpc, outcome, themes, sent,
                   senders, rx, chan, list, err, found, data, call>>

\* The coordinator's own Sender kept alive across the drain.
DropTxForgotten ==
    /\ pc = "drop_tx"
    /\ pc' = "drain"
    /\ UNCHANGED <<source, records, spawned, tpc, outcome, themes, sent,
                   senders, rx, chan, list, err, found, data, call>>

\* drop(tx)
DropTx ==
    /\ pc = "drop_tx"
    /\ senders' = senders - 1
    /\ pc' = "drain"
    /\ UNCHANGED <<source, records, spawned, tpc, outcome, themes, sent,
                   rx, chan, list, err, found, data, call>>

\* A collect() into a collection that keeps one of equal values.
RecvDeduplicating ==
    /\ pc = "drain"
    /\ chan # <<>>
    /\ list' = IF \E k \in 1..Len(list) : list[k] = Head(chan)
               THEN list ELSE Append(list, Head(chan))
    /\ chan' = Tail(chan)
    /\ UNCHANGED <<source, pc, records, spawned, tpc, outcome, themes, sent,
                   senders, rx, err, found, data, call>>

\* rx.into_iter(): recv() yielding a queued value.
Recv ==
    /\ pc = "drain"
    /\ chan # <<>>
    /\ list' = Append(list, Head(chan))
    /\ chan' = Tail(chan)
    /\ UNCHANGED <<source, pc, records, spawned, tpc, outcome, themes, sent,
                   senders, rx, err, found, data, call>>

\* rx.into_iter(): recv() failing, the queue empty and every Sender gone;
\* collect() ends, the Receiver is dropped and new_from returns Self { list }.
DrainEnd ==
    /\ pc = "drain"
    /\ chan = <<>>
    /\ senders = 0
    /\ rx' = FALSE
    /\ pc' = "returned"
    /\ UNCHANGED <<source, records, spawned, tpc, outcome, themes, sent,
                   senders, chan, list, err, found, data, call>>

(***************************************************************************)
(* The closure each scoped thread runs                                     *)
(***************************************************************************)

\* The thread's locals dropped at the closure's end, tx's clone among them.
Finish(i, how, ts) ==
    /\ tpc' = [tpc EXCEPT ![i] = "done"]
    /\ outcome' = [outcome EXCEPT ![i] = how]
    /\ themes' = [themes EXCEPT ![i] = ts]
    /\ senders' = senders - 1

\* canonicalize().unwrap(): the thread panics on a missing path and the
\* scope passes the panic on to the caller.
CanonicalizeUnwrap(i) ==
    /\ tpc[i] = "canonicalize"
    /\ \/ /\ tpc' = [tpc EXCEPT ![i] = "read"]
          /\ UNCHANGED <<outcome, themes, senders, pc, err>>
       \/ /\ Finish(i, "no_path", <<>>)
          /\ pc' = "error"
          /\ err' = "panic"
    /\ UNCHANGED <<source, records, spawned, sent, rx, chan, list, found, data, call>>

\* PathBuf::from(path).join("package.json").canonicalize()
Canonicalize(i) ==
    /\ tpc[i] = "canonicalize"
    /\ \/ /\ tpc' = [tpc EXCEPT ![i] = "read"]
          /\ UNCHANGED <<outcome, themes, senders>>
       \/ Finish(i, "no_path", <<>>)
    /\ UNCHANGED <<source, pc, records, spawned, sent, rx, chan, list, err, found, data, call>>

\* A read that, failing, sends the thread back to resolve the path again.
ReadManifestRetry(i) ==
    /\ tpc[i] = "read"
    /\ \/ /\ tpc' = [tpc EXCEPT ![i] = "canonicalize"]
          /\ UNCHANGED <<outcome, themes, senders>>
       \/ \E content \in Files :
            LET manifest == FromStrManifest(content)
            IN  IF ~manifest.ok THEN Finish(i, "bad_manifest", <<>>)
                ELSE IF manifest.themes = <<>> THEN Finish(i, "ok", <<>>)
                ELSE /\ tpc' = [tpc EXCEPT ![i] = "send"]
                     /\ outcome' = [outcome EXCEPT ![i] = "ok"]
                     /\ themes' = [themes EXCEPT ![i] = manifest.themes]
                     /\ UNCHANGED senders
    /\ UNCHANGED <<source, pc, records, spawned, sent, rx, chan, list, err, found, data, call>>

\* std::fs::read_to_string(&path), then serde_json::from_str of the data.
ReadManifest(i) ==
    /\ tpc[i] = "read"
    /\ \/ Finish(i, "unreadable", <<>>)
       \/ \E content \in Files :
            LET manifest == FromStrManifest(content)
            IN  IF ~manifest.ok THEN Finish(i, "bad_manifest", <<>>)
                ELSE IF manifest.themes = <<>> THEN Finish(i, "ok", <<>>)
                ELSE /\ tpc' = [tpc EXCEPT ![i] = "send"]
                     /\ outcome' = [outcome EXCEPT ![i] = "ok"]
                     /\ themes' = [themes EXCEPT ![i] = manifest.themes]
                     /\ UNCHANGED senders
    /\ UNCHANGED <<source, pc, records, spawned, sent, rx, chan, list, err, found, data, call>>

\* A channel that puts a sent value in front of those already queued.
ChanSendFront(value) == IF rx THEN <<value>> \o chan ELSE chan

\* tx.send(value): queued while the Receiver lives, an Err (discarded by
\* `let _ =`) once it is gone.
ChanSend(value) == IF rx THEN Append(chan, value) ELSE chan

\* Threads that send in turn: a thread sends only once the threads of all
\* earlier records have finished.
SendInRecordOrder(i) ==
    /\ tpc[i] = "send"
    /\ \A j \in 1..(i - 1) : tpc[j] = "done"
    /\ chan' = ChanSend(LabeledTheme(themes[i][sent[i] + 1], records[i].identifier.id))
    /\ sent' = [sent EXCEPT ![i] = sent[i] + 1]
    /\ IF sent[i] + 1 = Len(themes[i])
       THEN /\ tpc' = [tpc EXCEPT ![i] = "done"]
            /\ senders' = senders - 1
       ELSE UNCHANGED <<tpc, senders>>
    /\ UNCHANGED <<source, pc, records, spawned, outcome, themes, rx, list, err, found, data, call>>

\* One turn of `for theme in manifest.contributes.themes`; after the last
\* turn the closure ends.
Send(i) ==
    /\ tpc[i] = "send"
    /\ chan' = ChanSend(LabeledTheme(themes[i][sent[i] + 1], records[i].identifier.id))
    /\ sent' = [sent EXCEPT ![i] = sent[i] + 1]
    /\ IF sent[i] + 1 = Len(themes[i])
       THEN /\ tpc' = [tpc EXCEPT ![i] = "done"]
            /\ senders' = senders - 1
       ELSE UNCHANGED <<tpc, senders>>
    /\ UNCHANGED <<source, pc, records, spawned, outcome, themes, rx, list, err, found, data, call>>

Task(i) == i \in Tasks /\ (Canonicalize(i) \/ ReadManifest(i) \/ Send(i))

(***************************************************************************)
(* find_theme                                                              *)
(***************************************************************************)

\* The labels find_theme is asked for.
Queries == {"Foo", "Bar", "", "foo", "Nonexistent"}

\* self.list.iter().find_map(..): the closure's result for the first
\* element, from position i on, for which it is Some.
RECURSIVE FindMap(_, _, _)
FindMap(l, i, current) ==
    IF i > Len(l) THEN [some |-> FALSE]
    ELSE IF l[i].label = current
         THEN [some |-> TRUE, id |-> l[i].id, variant |-> l[i].label]
         ELSE FindMap(l, i + 1, current)

\* iter().rev(): the last element with the label.
RECURSIVE FindMapRev(_, _, _)
FindMapRev(l, i, current) ==
    IF i < 1 THEN [some |-> FALSE]
    ELSE IF l[i].label = current
         THEN [some |-> TRUE, id |-> l[i].id, variant |-> l[i].label]
         ELSE FindMapRev(l, i - 1, current)

find_theme_last(l, current) == FindMapRev(l, Len(l), current)

\* to_lowercase() of the labels that occur.
Lowercase(str) ==
    CASE str = "Foo" -> "foo" [] str = "Bar" -> "bar" [] OTHER -> str

\* The labels compared without regard to case.
RECURSIVE FindMapIgnoreCase(_, _, _)
FindMapIgnoreCase(l, i, current) ==
    IF i > Len(l) THEN [some |-> FALSE]
    ELSE IF Lowercase(l[i].label) = Lowercase(current)
         THEN [some |-> TRUE, id |-> l[i].id, variant |-> l[i].label]
         ELSE FindMapIgnoreCase(l, i + 1, current)

find_theme_ignore_case(l, current) == FindMapIgnoreCase(l, 1, current)

find_theme(l, current) == FindMap(l, 1, current)

FindTheme ==
    /\ pc = "returned"
    /\ \E current \in Queries :
         found' = [called |-> TRUE, current |-> current,
                   result |-> find_theme(list, current)]
    /\ UNCHANGED <<scanVars, textVars>>

(***************************************************************************)
(* Specifications                                                          *)
(***************************************************************************)
Coordinator == NewFrom \/ Spawn \/ Join \/ DropTx \/ Recv \/ DrainEnd

Next ==
    \/ Coordinator
    \/ \E i \in Tasks : Task(i)
    \/ FindTheme

Spec == Init /\ [][Next]_vars

(***************************************************************************)
(* The calls on a settings document                                        *)
(***************************************************************************)
GetCurrentThemeFrom ==
    /\ call = NoCall
    /\ call' = [op |-> "get_current_theme_from",
                result |-> get_current_theme_from(data)]
    /\ UNCHANGED <<scanVars, found, data>>

GetCurrentFontsFrom ==
    /\ call = NoCall
    /\ call' = [op |-> "get_current_fonts_from",
                result |-> get_current_fonts_from(data)]
    /\ UNCHANGED <<scanVars, found, data>>

Extract ==
    /\ call = NoCall
    /\ \E key \in {ColorThemeKey, EditorFontKey, TerminalFontKey} :
         call' = [op |-> "extract", key |-> key,
                  result |-> extract(make_json_regex(key), data)]
    /\ UNCHANGED <<scanVars, found, data>>

TextInit ==
    /\ source = [json |-> FALSE, entries |-> <<>>]
    /\ data \in Documents
    /\ Fresh

TextNext == GetCurrentThemeFrom \/ GetCurrentFontsFrom \/ Extract

\* The settings-document functions applied to every document considered.
TextSpec == TextInit /\ [][TextNext]_vars

\* Every thread the scope spawned gets to run, and so does the caller.
FairSpec ==
    /\ Spec
    /\ WF_vars(Coordinator)
    /\ \A i \in 1..MaxRecords : WF_vars(Task(i))

(***************************************************************************)
(* Properties                                                              *)
(***************************************************************************)
Range(seq) == {seq[k] : k \in 1..Len(seq)}

Count(seq, x) == Cardinality({k \in 1..Len(seq) : seq[k] = x})

Failures == {"no_path", "unreadable", "bad_manifest"}

\* The tasks whose manifest was read and parsed.
OkTasks == {i \in Tasks : outcome[i] = "ok"}

\* <<i, k>>: theme k of the manifest task i read.
Contributions == UNION {{<<i, k>> : k \in 1..Len(themes[i])} : i \in OkTasks}

\* The (label, record id) entry that contribution stands for.
EntryOf(c) == [label |-> themes[c[1]][c[2]], id |-> records[c[1]].identifier.id]

Contributes(i, label) ==
    outcome[i] = "ok" /\ \E k \in 1..Len(themes[i]) : themes[i][k] = label

\* C1: when new_from has returned, the index holds, as a multiset, exactly
\* one (label, record id) entry per theme of every manifest that was read:
\* every entry occurs as often as it was contributed, and N records with one
\* distinct label each give an index of length N.
C1_IndexIsUnionOfContributions ==
    pc = "returned" =>
        /\ \A x \in Range(list) \cup {EntryOf(c) : c \in Contributions} :
              Count(list, x) = Cardinality({c \in Contributions : EntryOf(c) = x})
        /\ (/\ \A i \in Tasks : outcome[i] = "ok" /\ Len(themes[i]) = 1
            /\ \A i, j \in Tasks : i # j => themes[i][1] # themes[j][1])
              => Len(list) = Len(records)

\* Two records with the same id contributed the same label, and the index
\* holds both entries.
C1_Witness ==
    /\ pc = "returned"
    /\ Len(records) >= 2
    /\ \A i \in Tasks : outcome[i] = "ok" /\ Len(themes[i]) >= 1
    /\ \E j, k \in 1..Len(list) : j # k /\ list[j] = list[k]

\* C2: a task that failed to canonicalize, read or parse its manifest has
\* sent nothing and has not made new_from fail; the returned index holds
\* exactly the entries of the other tasks, and is empty when all failed.
C2_FailedTaskIsSkipped ==
    /\ \A i \in Tasks :
          outcome[i] \in Failures =>
              sent[i] = 0 /\ tpc[i] = "done" /\ err = "none" /\ pc # "error"
    /\ pc = "returned" =>
          /\ Len(list) = Cardinality(Contributions)
          /\ \A x \in Range(list) : \E c \in Contributions : EntryOf(c) = x
          /\ (\A i \in Tasks : outcome[i] \in Failures) => list = <<>>

\* One task failed, another's entries are the returned index.
C2_Witness ==
    /\ pc = "returned"
    /\ \E i, j \in Tasks : outcome[i] \in Failures /\ outcome[j] = "ok"
    /\ list # <<>>

\* C3: from the end of thread::scope on, and so when new_from returns, a
\* thread was spawned for every record and every one of them has finished;
\* at the return no Sender is left.
C3_JoinedBeforeReturn ==
    /\ pc \in {"drop_tx", "drain", "returned"} =>
          spawned = Len(records) /\ \A i \in Tasks : tpc[i] = "done"
    /\ pc = "returned" => senders = 0

\* new_from returned after two tasks that both sent.
C3_Witness ==
    /\ pc = "returned"
    /\ Len(records) >= 2
    /\ \A i \in Tasks : sent[i] >= 1

\* C4: under fairness on the coordinator and on every task, a scan that
\* has started returns; while the coordinator drains, no Sender is alive.
C4_ScanTerminates ==
    /\ [](pc = "drain" => senders = 0)
    /\ (pc = "scope") ~> (pc = "returned")

\* The drain has ended with a non-empty index of two records.
C4_Witness ==
    /\ pc = "returned"
    /\ Len(records) >= 2
    /\ Len(list) >= 2

\* C5: a result of find_theme carries the id of the entry at the smallest
\* position whose label equals the requested label, and that label as its
\* variant.
C5_FindReturnsFirstMatch ==
    (found.called /\ found.result.some) =>
        \E j \in 1..Len(list) :
            /\ list[j].label = found.current
            /\ \A m \in 1..(j - 1) : list[m].label # found.current
            /\ found.result.id = list[j].id
            /\ found.result.variant = found.current

\* The result is the first of two entries with the requested label and
\* different ids.
C5_Witness ==
    /\ found.called /\ found.result.some
    /\ \E j, k \in 1..Len(list) :
          /\ j < k
          /\ list[j].label = found.current /\ list[k].label = found.current
          /\ list[j].id # list[k].id
          /\ found.result.id = list[j].id

\* C6: find_theme returns nothing exactly when no entry of the index has
\* the requested label, and no error is raised by it.
C6_FindNoneIffNoMatch ==
    found.called =>
        /\ ~found.result.some <=> \A j \in 1..Len(list) : list[j].label # found.current
        /\ err = "none"

\* Nothing is found for "foo" in an index that holds "Foo".
C6_Witness ==
    /\ found.called /\ ~found.result.some
    /\ found.current = "foo"
    /\ \E j \in 1..Len(list) : list[j].label = "Foo"

\* The requested label is contributed by exactly the two tasks i and j,
\* whose records have different ids.
DuplicateLabel(i, j) ==
    /\ i # j
    /\ Contributes(i, found.current) /\ Contributes(j, found.current)
    /\ records[i].identifier.id # records[j].identifier.id
    /\ \A m \in Tasks \ {i, j} : ~Contributes(m, found.current)

\* C7: when two read records with different ids both contribute the
\* requested label, find_theme returns one of those two ids.
C7_DuplicateLabelFindsEitherId ==
    found.called =>
        \A i, j \in Tasks :
            DuplicateLabel(i, j) =>
                /\ found.result.some
                /\ found.result.id \in
                      {records[i].identifier.id, records[j].identifier.id}

\* find_theme returned the id of the later of the two records.
C7_Witness ==
    /\ found.called /\ found.result.some
    /\ \E i, j \in Tasks :
          i < j /\ DuplicateLabel(i, j) /\ found.result.id = records[j].identifier.id

\* find_theme returned the id of the earlier of the two records.
C7_WitnessFirstId ==
    /\ found.called /\ found.result.some
    /\ \E i, j \in Tasks :
          i < j /\ DuplicateLabel(i, j) /\ found.result.id = records[i].identifier.id

\* C8: every LabeledTheme sent or collected has a non-empty label and a
\* non-empty id.
C8_LabeledThemeNonEmpty ==
    \A x \in Range(chan) \cup Range(list) : x.label # "" /\ x.id # ""

\* The text is a JSON array each element of which carries location.path,
\* the one field of a record that has no default.
ExpectedShape(src) ==
    src.json /\ \A k \in 1..Len(src.entries) : src.entries[k].path # Absent

\* C9: when the extension cache does not parse as the expected shape,
\* new_from ends with Error::Json and nothing of the scan happens: no record
\* list, no thread, no channel, no index, no find_theme.
C9_MalformedCacheNeverScans ==
    /\ pc = "error" => err = "Json" /\ ~ExpectedShape(source)
    /\ ~ExpectedShape(source) =>
          /\ pc \in {"new_from", "error"}
          /\ records = <<>> /\ spawned = 0 /\ tpc = <<>>
          /\ senders = 0 /\ ~rx
          /\ chan = <<>> /\ list = <<>>
          /\ ~found.called

\* new_from failed on a JSON array one of whose elements has no location.
C9_Witness ==
    /\ pc = "error" /\ err = "Json"
    /\ source.json /\ Len(source.entries) >= 2

\* The offsets at which the lines of text begin.
LineStarts(text) == {0} \cup {p \in 1..Len(text) : text[p] = "\n"}

\* The line of text that begins at offset p, without its line feed.
LineAt(text, p) ==
    LET feeds == {q \in (p + 1)..Len(text) : text[q] = "\n"}
        end == IF feeds = {} THEN Len(text)
               ELSE (CHOOSE q \in feeds : \A r \in feeds : q <= r) - 1
    IN  SubSeq(text, p + 1, end)

\* The lines that, each taken alone, bind the key of re to a value.
BindingLines(re, text) ==
    {p \in LineStarts(text) : extract(re, LineAt(text, p)).some}

\* C10: for a document in which two or more lines bind the key, extract
\* returns the value of the first of those lines.
C10_FirstBindingLineWins ==
    call.op = "extract" =>
        LET re == make_json_regex(call.key)
            binding == BindingLines(re, data)
            first == CHOOSE p \in binding : \A q \in binding : p <= q
        IN  Cardinality(binding) >= 2 =>
                call.result = extract(re, LineAt(data, first))

\* C11: when no line binds the sought key the call fails with the error
\* that names the field (the theme: CannotFindCurrentTheme; the fonts:
\* CannotFindEditorFont without an editor-font line, CannotFindTerminalFont
\* when only the terminal-font line is missing), and when the key is bound
\* the call succeeds with the extracted value.
C11_MissingKeyNamesItsField ==
    LET theme == BindingLines(WORKBENCH_COLOR_THEME, data) # {}
        editor == BindingLines(WORKBENCH_EDITOR_FONT, data) # {}
        terminal == BindingLines(WORKBENCH_TERMINAL_FONT, data) # {}
    IN  /\ call.op = "get_current_theme_from" =>
              IF theme
              THEN /\ call.result.ok
                   /\ call.result.val = extract(WORKBENCH_COLOR_THEME, data).val
              ELSE ~call.result.ok /\ call.result.err = "CannotFindCurrentTheme"
        /\ call.op = "get_current_fonts_from" =>
              CASE ~editor ->
                     ~call.result.ok /\ call.result.err = "CannotFindEditorFont"
                [] editor /\ ~terminal ->
                     ~call.result.ok /\ call.result.err = "CannotFindTerminalFont"
                [] OTHER ->
                     /\ call.result.ok
                     /\ call.result.val.editor = extract(WORKBENCH_EDITOR_FONT, data).val
                     /\ call.result.val.terminal = extract(WORKBENCH_TERMINAL_FONT, data).val

\* The quoted key occurs somewhere in the text.
KeyOccurs(key, text) ==
    \E p \in 1..Len(text) :
        /\ p + Len(key) + 1 <= Len(text)
        /\ SubSeq(text, p, p + Len(key) + 1) = Quoted(key)

\* The statement of C11 for the documents in which no line holds a key
\* without its value: there the error names the field sought.
C11_HoldsWithoutValuelessKeyLine ==
    (\A p \in LineStarts(data) :
        \A key \in {ColorThemeKey, EditorFontKey, TerminalFontKey} :
            KeyOccurs(key, LineAt(data, p)) =>
                extract(make_json_regex(key), LineAt(data, p)).some)
        => C11_MissingKeyNamesItsField

\* The offset of the k-th quote character of text.
QuoteAt(text, k) ==
    LET quotes == {p \in 1..Len(text) : text[p] = "\""}
    IN  CHOOSE p \in quotes : Cardinality({q \in quotes : q < p}) = k - 1

QuoteCount(text) == Cardinality({p \in 1..Len(text) : text[p] = "\""})

\* The first line of text on which the quoted key occurs.
FirstKeyLine(key, text) ==
    LET on == {p \in LineStarts(text) : KeyOccurs(key, LineAt(text, p))}
    IN  LineAt(text, CHOOSE p \in on : \A q \in on : p <= q)

\* The first line holding the key binds it to a value with an escaped
\* quote: the quote that follows the value's opening quote comes after a
\* backslash.
BindsEscapedQuote(key, text) ==
    /\ KeyOccurs(key, text)
    /\ LET line == FirstKeyLine(key, text)
       IN  /\ extract(make_json_regex(key), line).some
           /\ QuoteCount(line) >= 5
           /\ line[QuoteAt(line, 4) - 1] = "\\"

\* C12 as claimed: for a line that binds the key to a value with an escaped
\* quote, extract returns the value text up to the first quote after the
\* value's opening quote.
C12_CaptureStopsAtFirstQuote ==
    (call.op = "extract" /\ BindsEscapedQuote(call.key, data)) =>
        LET line == FirstKeyLine(call.key, data)
        IN  /\ call.result.some
            /\ call.result.val =
                  SubSeq(line, QuoteAt(line, 3) + 1, QuoteAt(line, 4) - 1)

\* C12 as amended: for such a line extract returns the value text up to the
\* last quote of the line, the backslash and the inner quote included.
C12_CaptureRunsToLastQuote ==
    (call.op = "extract" /\ BindsEscapedQuote(call.key, data)) =>
        LET line == FirstKeyLine(call.key, data)
        IN  /\ call.result.some
            /\ call.result.val =
                  SubSeq(line, QuoteAt(line, 3) + 1, QuoteAt(line, QuoteCount(line)) - 1)

\* extract has returned A\"B from such a line that follows another line.
C12_Witness ==
    /\ call.op = "extract" /\ BindsEscapedQuote(call.key, data)
    /\ Cardinality(LineStarts(data)) >= 2
    /\ call.result.val = <<"A", "\\", "\"", "B">>

\* The line begins, after leading whitespace only, with the quoted key.
BeginsWithKey(key, line) ==
    \E k \in 0..Len(line) :
        /\ \A j \in 1..k : line[j] \in Whitespace
        /\ k + Len(key) + 2 <= Len(line)
        /\ SubSeq(line, k + 1, k + Len(key) + 2) = Quoted(key)

\* C13: extract finds a value only in a document with a line whose quoted
\* key equals the looked-up key character for character; a document whose
\* only keyed lines carry editorXfontFamily gives nothing for
\* editor.fontFamily.
C13_DotsAreLiteral ==
    (call.op = "extract" /\ call.result.some) =>
        \E p \in LineStarts(data) : BeginsWithKey(call.key, LineAt(data, p))

\* extract has looked up editor.fontFamily in a document that holds
\* editorXfontFamily and not editor.fontFamily, and found nothing.
C13_Witness ==
    /\ call.op = "extract" /\ call.key = EditorFontKey
    /\ KeyOccurs(EditorXKey, data) /\ ~KeyOccurs(EditorFontKey, data)
    /\ ~call.result.some

\* C14: every step in which the coordinator takes a value off the channel
\* is taken with every record's task spawned and finished, and no Sender
\* left that could still append.
C14_ReceivesOnlyAfterAllTasks ==
    [][(list' # list \/ Len(chan') < Len(chan)) =>
          /\ spawned = Len(records)
          /\ \A i \in Tasks : tpc[i] = "done"
          /\ senders = 0]_vars

\* The drain is under way after two tasks ran: one value received, another
\* still queued.
C14_Witness ==
    /\ pc = "drain" /\ Len(records) = 2
    /\ list # <<>> /\ chan # <<>>
    /\ \A i \in Tasks : tpc[i] = "done" /\ sent[i] > 0

\* How far a task has come.
Rank(at) ==
    CASE at = "unspawned" -> 0
      [] at = "canonicalize" -> 1
      [] at = "read" -> 2
      [] at = "send" -> 3
      [] at = "done" -> 4

\* C15: tasks are spawned one per record in record order, a task never
\* goes back to an earlier step (so it resolves and reads its manifest at
\* most once), a finished task, failed or not, is left as it finished, and
\* once the scope is left every record has had its task.
C15_OneTaskPerRecordNoRetry ==
    [][/\ \A i \in Tasks :
            /\ Rank(tpc'[i]) >= Rank(tpc[i])
            /\ tpc[i] = "read" /\ tpc'[i] # "read" => Rank(tpc'[i]) > 2
            /\ tpc[i] = "done" =>
                  /\ outcome'[i] = outcome[i]
                  /\ themes'[i] = themes[i]
                  /\ sent'[i] = sent[i]
            /\ tpc[i] = "unspawned" /\ tpc'[i] # "unspawned" =>
                  i = spawned + 1 /\ spawned' = i
       /\ spawned' \in {spawned, spawned + 1}
       /\ \A i \in 1..Len(records') : tpc'[i] # "unspawned" <=> i <= spawned'
       /\ pc' \in {"drop_tx", "drain", "returned"} => spawned' = Len(records')
      ]_vars

\* A scan of two records has returned: the first record's manifest could
\* not be read, the second record's themes were all sent.
C15_Witness ==
    /\ pc = "returned" /\ Len(records) = 2
    /\ outcome[1] = "unreadable" /\ tpc[1] = "done"
    /\ outcome[2] = "ok" /\ sent[2] = Len(themes[2]) /\ sent[2] >= 1

\* The entry task i sends next.
NextEntry(i) == EntryOf(<<i, sent[i] + 1>>)

\* Both records of a two-record scan were read and contribute one theme
\* each.
TwoSingleThemeRecords ==
    /\ Len(records) = 2
    /\ \A i \in Tasks : outcome[i] = "ok" /\ Len(themes[i]) = 1

\* C16: the input order does not fix the order of entries of different
\* records: whenever two tasks are both about to send, either of them can
\* be the one whose entry is queued next, and a returned index of two
\* single-theme records holds their two entries in one order or the other.
C16_EitherOrderPossible ==
    /\ \A i, j \in Tasks :
          (i < j /\ tpc[i] = "send" /\ tpc[j] = "send") =>
              /\ ENABLED (Send(i) /\ chan' = Append(chan, NextEntry(i)))
              /\ ENABLED (Send(j) /\ chan' = Append(chan, NextEntry(j)))
    /\ (pc = "returned" /\ TwoSingleThemeRecords) =>
          list \in {<<EntryOf(<<1, 1>>), EntryOf(<<2, 1>>)>>,
                    <<EntryOf(<<2, 1>>), EntryOf(<<1, 1>>)>>}

\* The returned index holds the second record's entry before the first
\* record's, the two entries differing.
C16_Witness ==
    /\ pc = "returned" /\ TwoSingleThemeRecords
    /\ EntryOf(<<1, 1>>) # EntryOf(<<2, 1>>)
    /\ list = <<EntryOf(<<2, 1>>), EntryOf(<<1, 1>>)>>

\* The returned index holds the two entries in the order of the records.
C16_WitnessInputOrder ==
    /\ pc = "returned" /\ TwoSingleThemeRecords
    /\ EntryOf(<<1, 1>>) # EntryOf(<<2, 1>>)
    /\ list = <<EntryOf(<<1, 1>>), EntryOf(<<2, 1>>)>>

\* The entries task i has sent so far, in the order its manifest declares
\* them.
SentOf(i) == [k \in 1..sent[i] |-> EntryOf(<<i, k>>)]

\* s is a merge of the sequences seqs[i]: every seqs[i] lies in s in its
\* own order, and s holds nothing else.
RECURSIVE Interleaves(_, _)
Interleaves(seqs, s) ==
    IF s = <<>> THEN \A i \in DOMAIN seqs : seqs[i] = <<>>
    ELSE \E i \in DOMAIN seqs :
            /\ seqs[i] # <<>>
            /\ Head(seqs[i]) = Head(s)
            /\ Interleaves([seqs EXCEPT ![i] = Tail(seqs[i])], Tail(s))

\* C17: what was received followed by what is queued is always a merge of
\* the tasks' sent entries that keeps each manifest's declaration order; so
\* in the returned index a theme declared earlier in a manifest stands
\* before one declared later in it.
C17_ManifestOrderKept ==
    pc \in {"scope", "drop_tx", "drain", "returned"} =>
        Interleaves([i \in Tasks |-> SentOf(i)], list \o chan)

\* The returned index holds another record's entry between the two entries
\* of one manifest.
C17_Witness ==
    /\ pc = "returned" /\ Len(list) = 3
    /\ \E i, j \in Tasks :
          /\ i # j /\ Len(themes[i]) = 2 /\ Len(themes[j]) = 1
          /\ list = <<EntryOf(<<i, 1>>), EntryOf(<<j, 1>>), EntryOf(<<i, 2>>)>>
          /\ EntryOf(<<j, 1>>) \notin {EntryOf(<<i, 1>>), EntryOf(<<i, 2>>)}

\* The number of sends the first n tasks have made.
RECURSIVE SentUpTo(_)
SentUpTo(n) == IF n = 0 THEN 0 ELSE sent[n] + SentUpTo(n - 1)

\* C18: the Receiver is alive for as long as any task has not finished, so
\* every send finds it; every value sent is queued or has been received,
\* none dropped.
C18_NoSendFails ==
    /\ \A i \in Tasks : tpc[i] # "done" => rx
    /\ pc \in {"scope", "drop_tx", "drain", "returned"} =>
          SentUpTo(Len(records)) = Len(list) + Len(chan)

\* A task is between its two sends: the Receiver is alive and the first
\* value is queued.
C18_Witness ==
    /\ rx /\ chan # <<>>
    /\ \E i \in Tasks : tpc[i] = "send" /\ sent[i] = 1 /\ Len(themes[i]) = 2

\* Some line of text begins with the quoted key.
KeyBeginsLine(key, text) ==
    \E p \in LineStarts(text) : BeginsWithKey(key, LineAt(text, p))

\* C19: get_current_fonts_from fails with CannotFindEditorFont whenever the
\* editor key is absent, the terminal key absent or not; it fails with
\* CannotFindTerminalFont only after the editor font was found; a failure
\* carries no fonts and a success carries both.
C19_EditorFontLookedUpFirst ==
    call.op = "get_current_fonts_from" =>
        /\ ~KeyOccurs(EditorFontKey, data) =>
              ~call.result.ok /\ call.result.err = "CannotFindEditorFont"
        /\ call.result.err = "CannotFindTerminalFont" =>
              /\ ~call.result.ok
              /\ KeyBeginsLine(EditorFontKey, data)
              /\ extract(WORKBENCH_EDITOR_FONT, data).some
              /\ ~extract(WORKBENCH_TERMINAL_FONT, data).some
        /\ ~call.result.ok =>
              /\ call.result.val = <<>>
              /\ call.result.err \in {"CannotFindEditorFont", "CannotFindTerminalFont"}
        /\ call.result.ok =>
              /\ call.result.val.editor = extract(WORKBENCH_EDITOR_FONT, data).val
              /\ call.result.val.terminal = extract(WORKBENCH_TERMINAL_FONT, data).val
              /\ KeyBeginsLine(EditorFontKey, data)
              /\ KeyBeginsLine(TerminalFontKey, data)

\* get_current_fonts_from has failed with CannotFindEditorFont on a
\* document that holds lines but neither font key.
C19_Witness ==
    /\ call.op = "get_current_fonts_from"
    /\ data # <<>>
    /\ ~KeyOccurs(EditorFontKey, data) /\ ~KeyOccurs(TerminalFontKey, data)
    /\ ~call.result.ok /\ call.result.err = "CannotFindEditorFont"

====
